---- MODULE Spec2Model ----
(***************************************************************************)
(* Model of crates/puffin-requirements/src/lib.rs: the requirements.txt    *)
(* line splitter (RequirementsIterator), the trivia stripper               *)
(* (RequirementLine::strip_trivia) and the collection builder              *)
(* (Requirements::from_str).                                               *)
(*                                                                         *)
(* A str is a sequence of one-character strings.  Offsets are the code's   *)
(* 0-based byte offsets (every modelled character is one byte wide).       *)
(* A panic (slice index out of range, arithmetic overflow in a build with  *)
(* overflow checks) is an explicit outcome.                                *)
(***************************************************************************)
EXTENDS Integers, Sequences, FiniteSets, TLC

VARIABLES
    build,        \* "debug" (overflow checks on) or "release" (wrapping)
    text,         \* RequirementsIterator.text
    index,        \* RequirementsIterator.index
    pc,           \* "new"; "iter" (next is called directly); from_str: "collect",
                  \* "Ok", "Err", "Panic"; "strip", "stripped"; "eol"
    calls,        \* number of calls of RequirementsIterator::next so far
    ret,          \* kind of the last value next returned: "-", "Some", "None", "Panic"
    lines,        \* the RequirementLines next has returned, in order
    parsed,       \* the strings handed to Requirement::from_str, in order
    entries,      \* the Vec<Requirement> being collected
    error,        \* the Pep508Error from_str returns, <<>> when none
    requirement,  \* the argument of strip_trivia
    stripped,     \* the outcome of strip_trivia(requirement)
    physical,     \* a manifest as physical-line characters and line breaks
    lfIndex,      \* cursor of the iterator over the \n-only manifest
    lfRet,        \* kind of the last value that iterator returned
    lfLines       \* the RequirementLines that iterator has returned

vars == <<build, text, index, pc, calls, ret, lines, parsed, entries, error,
          requirement, stripped, physical, lfIndex, lfRet, lfLines>>

(***************************************************************************)
(* Bounds of the model.                                                    *)
(***************************************************************************)
MaxText == 5
MaxCalls == 5
MaxTokens == 5
MaxSymbols == 5

(***************************************************************************)
(* str primitives.                                                         *)
(***************************************************************************)
\* usize is modelled 30 bits wide (TLC's integers are 32-bit); only the wrap
\* of 0 - 1 to the largest value matters.
UsizeModulus == 2 ^ 30

\* a - b on usize in a release build (wrapping).
wrapping_sub(a, b) == (a - b + UsizeModulus) % UsizeModulus

\* s[from..to]; defined when SliceOk.
Slice(s, from, to) == SubSeq(s, from + 1, to)

\* Whether s[from..to] is in range (otherwise the slice panics).
SliceOk(s, from, to) == from <= to /\ to <= Len(s)

is_whitespace(c) == c \in {" ", "\t", "\n", "\r"}

\* s.chars().rev().next().is_some_and(p): the last character, when there is one.
LastIs(s, set) == Len(s) > 0 /\ s[Len(s)] \in set

\* s.trim_start()
trim_start(s) ==
    LET NonWs == {i \in 1..Len(s) : ~is_whitespace(s[i])}
    IN  IF NonWs = {} THEN <<>>
        ELSE SubSeq(s, CHOOSE i \in NonWs : \A j \in NonWs : i <= j, Len(s))

\* s.trim()
trim(s) ==
    LET NonWs == {i \in 1..Len(s) : ~is_whitespace(s[i])}
    IN  IF NonWs = {} THEN <<>>
        ELSE SubSeq(s, CHOOSE i \in NonWs : \A j \in NonWs : i <= j,
                       CHOOSE i \in NonWs : \A j \in NonWs : i >= j)

\* s.starts_with('#')
starts_with_hash(s) == Len(s) > 0 /\ s[1] = "#"

\* memchr_iter(b'#', bytes): the offsets of '#', ascending.
RECURSIVE memchr_iter(_, _)
memchr_iter(bytes, from) ==
    IF from >= Len(bytes) THEN <<>>
    ELSE IF bytes[from + 1] = "#" THEN <<from>> \o memchr_iter(bytes, from + 1)
    ELSE memchr_iter(bytes, from + 1)

\* memchr2(b'\n', b'\r', bytes): offset of the first line-break byte, -1 for None.
RECURSIVE memchr2(_, _)
memchr2(bytes, from) ==
    IF from >= Len(bytes) THEN -1
    ELSE IF bytes[from + 1] \in {"\n", "\r"} THEN from
    ELSE memchr2(bytes, from + 1)

\* The literal "--hash".
HashExtra == <<"-", "-", "h", "a", "s", "h">>

\* haystack.find(needle) searching from offset from: first offset, -1 for None.
RECURSIVE find(_, _, _)
find(haystack, needle, from) ==
    IF from + Len(needle) > Len(haystack) THEN -1
    ELSE IF Slice(haystack, from, from + Len(needle)) = needle THEN from
    ELSE find(haystack, needle, from + 1)

(***************************************************************************)
(* find_newline                                                            *)
(***************************************************************************)
NoNewline == <<>>

\* Variant of find_newline without the '\r\n' branch: every break has width 1.
find_newline_width1(t) ==
    LET position == memchr2(t, 0)
    IN  IF position = -1 THEN NoNewline ELSE <<position, 1>>

\* <<start, length>> of the first line break of t, NoNewline for None.
find_newline(t) ==
    LET position == memchr2(t, 0)
    IN  IF position = -1 THEN NoNewline
        ELSE IF t[position + 1] = "\n" THEN <<position, 1>>
        ELSE IF position + 2 <= Len(t) /\ t[position + 2] = "\n" THEN <<position, 2>>
        ELSE <<position, 1>>

(***************************************************************************)
(* RequirementLine                                                         *)
(***************************************************************************)
\* The "Strip comments" loop of strip_trivia over the remaining '#' offsets:
\* [ok, len]; ok = FALSE is the panic of an out-of-range slice.
RECURSIVE strip_comments(_, _, _)
strip_comments(req, len, positions) ==
    IF positions = <<>> THEN [ok |-> TRUE, len |-> len]
    ELSE LET position == Head(positions)
         IN  IF ~SliceOk(req, 0, len + position)
                THEN [ok |-> FALSE, len |-> len]
             ELSE IF LastIs(Slice(req, 0, len + position), {" ", "\t", "\n", "\r"})
                THEN [ok |-> TRUE, len |-> position]
             ELSE strip_comments(req, len, Tail(positions))

\* Variant of strip_hash that searches the whole requirement, not requirement[..len].
strip_hash_whole(req, len) ==
    LET idx == find(req, HashExtra, 0)
    IN  IF idx /= -1 THEN idx ELSE len

\* The "Strip --hash extras" step of strip_trivia.
strip_hash(req, len) ==
    LET idx == find(Slice(req, 0, len), HashExtra, 0)
    IN  IF idx /= -1 THEN idx ELSE len

\* RequirementLine::strip_trivia: [ok, comment, len]; comment is len as the
\* comment loop leaves it, len the value returned; ok = FALSE is a panic.
strip_trivia(req) ==
    LET c == strip_comments(req, Len(req), memchr_iter(Slice(req, 0, Len(req)), 0))
    IN  IF ~c.ok THEN [ok |-> FALSE, comment |-> c.len, len |-> c.len]
        ELSE [ok |-> TRUE, comment |-> c.len, len |-> strip_hash(req, c.len)]

\* RequirementLine::as_str
as_str(l) == Slice(l.line, 0, l.len)

(***************************************************************************)
(* RequirementsIterator::next                                              *)
(***************************************************************************)
\* What one call of next leaves behind: the cursor and the returned value.
RetNone(i) == [index |-> i, kind |-> "None", line |-> <<>>, len |-> 0, at |-> 0]
RetPanic(i) == [index |-> i, kind |-> "Panic", line |-> <<>>, len |-> 0, at |-> 0]

\* Some(RequirementLine::from_line(line)), the line scanned from offset at.
from_line(i, line, at) ==
    LET s == strip_trivia(line)
    IN  IF s.ok THEN [index |-> i, kind |-> "Some", line |-> line, len |-> s.len, at |-> at]
        ELSE RetPanic(i)

\* The "Eat lines until we see a non-continuation" loop: [ok, index, line].
RECURSIVE eat_lines(_, _, _)
eat_lines(t, i, line) ==
    LET nl == find_newline(Slice(t, i, Len(t)))
    IN  IF nl = NoNewline THEN [ok |-> TRUE, index |-> i, line |-> line]
        ELSE LET start == nl[1]
                 length == nl[2]
             IN  IF LastIs(Slice(t, 0, i + start), {"\\"})
                    THEN IF ~SliceOk(t, i, i + start - 1)
                            THEN [ok |-> FALSE, index |-> i, line |-> line]
                         ELSE eat_lines(t, i + start + length,
                                        line \o Slice(t, i, i + start - 1))
                 ELSE [ok |-> TRUE, index |-> i + start + length,
                       line |-> line \o Slice(t, i, i + start)]

\* Variant of skip_comment in which a skipped comment line that ends in a
\* backslash takes the lines it continues with it.
skip_chain(t, i, start, length) ==
    IF LastIs(Slice(t, 0, i + start), {"\\"})
    THEN eat_lines(t, i + start + length, <<>>).index
    ELSE i + start + length

\* self.index += start + length, when a fully-commented line is skipped.
skip_comment(t, i, start, length) == i + start + length

\* The rest of next after a line break was found at start, once the line is
\* known to be neither fully commented nor empty.
emit_line(t, i, start, length) ==
    IF LastIs(Slice(t, 0, i + start), {"\\"})
    THEN IF ~SliceOk(t, i, i + start - 1) THEN RetPanic(i)
         ELSE LET e == eat_lines(t, i + start + length, Slice(t, i, i + start - 1))
              IN  IF e.ok THEN from_line(e.index, e.line, i) ELSE RetPanic(e.index)
    ELSE from_line(i + start + length, Slice(t, i, i + start), i)

\* The "Parse the rest of the text" branch of next; last is text.len() - 1.
rest_of_text(t, i, last) ==
    LET line == Slice(t, i, Len(t))
    IN  IF starts_with_hash(trim_start(line)) THEN RetNone(last)
        ELSE IF trim(line) = <<>> THEN RetNone(last)
        ELSE from_line(last, line, i)

RECURSIVE next(_, _, _)
next(t, i, b) ==
    IF Len(t) = 0 /\ b = "debug" THEN RetPanic(i)
    ELSE LET last == wrapping_sub(Len(t), 1)
         IN  IF i = last THEN RetNone(i)
             ELSE IF ~SliceOk(t, i, Len(t)) THEN RetPanic(i)
             ELSE LET nl == find_newline(Slice(t, i, Len(t)))
                  IN  IF nl = NoNewline THEN rest_of_text(t, i, last)
                      ELSE LET start == nl[1]
                               length == nl[2]
                           IN  IF starts_with_hash(trim_start(Slice(t, i, Len(t))))
                                  THEN next(t, skip_comment(t, i, start, length), b)
                               ELSE IF trim(Slice(t, i, i + start)) = <<>>
                                  THEN next(t, i + start + length, b)
                               ELSE emit_line(t, i, start, length)

\* The RequirementLine a returned Some carries.
LineOf(r) == [line |-> r.line, len |-> r.len, at |-> r.at]

(***************************************************************************)
(* Inputs.                                                                 *)
(***************************************************************************)
Builds == {"debug", "release"}
Chars == {"a", " ", "#", "\\", "\n", "\r"}

SeqsUpTo(S, n) == UNION {[1..k -> S] : k \in 0..n}

Idle ==
    /\ requirement = <<>>
    /\ stripped = [kind |-> "-", comment |-> 0, len |-> 0]
    /\ physical = <<>>
    /\ lfIndex = 0
    /\ lfRet = "-"
    /\ lfLines = <<>>

\* RequirementsIterator::new(text) over every text of up to MaxText characters.
Init ==
    /\ build \in Builds
    /\ text \in SeqsUpTo(Chars, MaxText)
    /\ index = 0
    /\ pc = "new"
    /\ calls = 0
    /\ ret = "-"
    /\ lines = <<>>
    /\ parsed = <<>>
    /\ entries = <<>>
    /\ error = <<>>
    /\ Idle

(***************************************************************************)
(* Operations.                                                             *)
(***************************************************************************)
\* One call of RequirementsIterator::next by a caller that drives the
\* iterator itself.
CallNext ==
    /\ pc \in {"new", "iter"}
    /\ ret /= "Panic"
    /\ calls < MaxCalls
    /\ \E r \in {next(text, index, build)} :
           /\ index' = r.index
           /\ ret' = r.kind
           /\ lines' = IF r.kind = "Some" THEN Append(lines, LineOf(r)) ELSE lines
    /\ pc' = "iter"
    /\ calls' = calls + 1
    /\ UNCHANGED <<build, text, parsed, entries, error, requirement, stripped,
                   physical, lfIndex, lfRet, lfLines>>

\* One turn of the collect loop of Requirements::from_str: pull a line, hand
\* its as_str() to Requirement::from_str, whose verdict is an input.
Collect ==
    /\ pc \in {"new", "collect"}
    /\ \E r \in {next(text, index, build)} :
           /\ index' = r.index
           /\ ret' = r.kind
           /\ calls' = calls + 1
           /\ lines' = IF r.kind = "Some" THEN Append(lines, LineOf(r)) ELSE lines
           /\ \/ /\ r.kind = "Panic"
                 /\ pc' = "Panic"
                 /\ UNCHANGED <<parsed, entries, error>>
              \/ /\ r.kind = "None"
                 /\ pc' = "Ok"
                 /\ UNCHANGED <<parsed, entries, error>>
              \/ /\ r.kind = "Some"
                 /\ parsed' = Append(parsed, as_str(LineOf(r)))
                 /\ \E accepted \in BOOLEAN :
                       IF accepted
                       THEN /\ entries' = Append(entries, as_str(LineOf(r)))
                            /\ pc' = "collect"
                            /\ error' = error
                       ELSE /\ entries' = <<>>
                            /\ pc' = "Err"
                            /\ error' = <<as_str(LineOf(r))>>
    /\ UNCHANGED <<build, text, requirement, stripped, physical, lfIndex, lfRet, lfLines>>

Next == CallNext \/ Collect

Spec == Init /\ [][Next]_vars

(***************************************************************************)
(* strip_trivia and as_str on their own, over lines built from tokens.     *)
(***************************************************************************)
Tokens == {<<"a">>, <<" ">>, <<"#">>, <<"-">>, HashExtra}

RECURSIVE Concat(_)
Concat(ss) == IF ss = <<>> THEN <<>> ELSE Head(ss) \o Concat(Tail(ss))

InitStrip ==
    /\ requirement \in {Concat(ts) : ts \in SeqsUpTo(Tokens, MaxTokens)}
    /\ stripped = [kind |-> "-", comment |-> 0, len |-> 0]
    /\ pc = "strip"
    /\ build = "release"
    /\ text = <<>>
    /\ index = 0
    /\ calls = 0
    /\ ret = "-"
    /\ lines = <<>>
    /\ parsed = <<>>
    /\ entries = <<>>
    /\ error = <<>>
    /\ physical = <<>>
    /\ lfIndex = 0
    /\ lfRet = "-"
    /\ lfLines = <<>>

\* RequirementLine::from_line(requirement): len = strip_trivia(&line).
Strip ==
    /\ pc = "strip"
    /\ \E s \in {strip_trivia(requirement)} :
           stripped' = [kind |-> IF s.ok THEN "Ok" ELSE "Panic",
                        comment |-> s.comment, len |-> s.len]
    /\ pc' = "stripped"
    /\ UNCHANGED <<build, text, index, calls, ret, lines, parsed, entries, error,
                   requirement, physical, lfIndex, lfRet, lfLines>>

\* RequirementLine::as_str on the line from_line built.
AsStr ==
    /\ pc = "stripped"
    /\ stripped.kind = "Ok"
    /\ parsed' = <<as_str([line |-> requirement, len |-> stripped.len])>>
    /\ pc' = "read"
    /\ UNCHANGED <<build, text, index, calls, ret, lines, entries, error,
                   requirement, stripped, physical, lfIndex, lfRet, lfLines>>

NextStrip == Strip \/ AsStr

SpecStrip == InitStrip /\ [][NextStrip]_vars

(***************************************************************************)
(* Two iterators side by side: one over a manifest whose physical lines    *)
(* are separated by any mix of line breaks, one over the same physical     *)
(* lines separated by \n only.                                             *)
(***************************************************************************)
Breaks == {"\n", "\r\n", "\r"}
Symbols == {"a", " ", "#", "\\"} \cup Breaks

\* The manifest a sequence of symbols spells.
RECURSIVE Manifest(_)
Manifest(p) ==
    IF p = <<>> THEN <<>>
    ELSE (IF Head(p) = "\r\n" THEN <<"\r", "\n">> ELSE <<Head(p)>>) \o Manifest(Tail(p))

\* The same physical lines, every break written \n.
RECURSIVE LfManifest(_)
LfManifest(p) ==
    IF p = <<>> THEN <<>>
    ELSE (IF Head(p) \in Breaks THEN <<"\n">> ELSE <<Head(p)>>) \o LfManifest(Tail(p))

InitEol ==
    /\ build \in Builds
    /\ physical \in SeqsUpTo(Symbols, MaxSymbols)
    /\ text = Manifest(physical)
    /\ index = 0
    /\ lfIndex = 0
    /\ pc = "eol"
    /\ calls = 0
    /\ ret = "-"
    /\ lfRet = "-"
    /\ lines = <<>>
    /\ lfLines = <<>>
    /\ parsed = <<>>
    /\ entries = <<>>
    /\ error = <<>>
    /\ requirement = <<>>
    /\ stripped = [kind |-> "-", comment |-> 0, len |-> 0]

\* One call of next on each of the two iterators (an iterator that has
\* panicked is not called again).
CallBoth ==
    /\ pc = "eol"
    /\ calls < MaxCalls
    /\ ret \notin {"None", "Panic"} \/ lfRet \notin {"None", "Panic"}
    /\ IF ret = "Panic"
       THEN UNCHANGED <<index, ret, lines>>
       ELSE \E r \in {next(text, index, build)} :
                /\ index' = r.index
                /\ ret' = r.kind
                /\ lines' = IF r.kind = "Some" THEN Append(lines, LineOf(r)) ELSE lines
    /\ IF lfRet = "Panic"
       THEN UNCHANGED <<lfIndex, lfRet, lfLines>>
       ELSE \E r \in {next(LfManifest(physical), lfIndex, build)} :
                /\ lfIndex' = r.index
                /\ lfRet' = r.kind
                /\ lfLines' = IF r.kind = "Some" THEN Append(lfLines, LineOf(r)) ELSE lfLines
    /\ calls' = calls + 1
    /\ UNCHANGED <<build, text, pc, parsed, entries, error, requirement, stripped, physical>>

NextEol == CallBoth

SpecEol == InitEol /\ [][NextEol]_vars

(***************************************************************************)
(* Vocabulary of the properties: physical lines, stated on the text alone. *)
(***************************************************************************)
IsBreak(c) == c \in {"\n", "\r"}

\* Offset of the first line-break character at or after offset i, else the
\* length of the text.
LineEnd(t, i) ==
    LET B == {e \in i..(Len(t) - 1) : IsBreak(t[e + 1])}
    IN  IF B = {} THEN Len(t) ELSE CHOOSE e \in B : \A f \in B : e <= f

\* Width of the line break at offset e (0 at the end of the text).
BreakWidth(t, e) ==
    IF e >= Len(t) THEN 0
    ELSE IF t[e + 1] = "\r" /\ e + 2 <= Len(t) /\ t[e + 2] = "\n" THEN 2
    ELSE 1

\* The physical line that starts at offset i.
PhysicalLine(t, i) == Slice(t, i, LineEnd(t, i))

\* Offset just past the line break of the physical line that starts at i.
AfterLine(t, i) == LineEnd(t, i) + BreakWidth(t, LineEnd(t, i))

Blank(s) == \A k \in 1..Len(s) : is_whitespace(s[k])

FullyCommented(s) ==
    \E k \in 1..Len(s) : s[k] = "#" /\ \A j \in 1..(k - 1) : is_whitespace(s[j])

Trivial(s) == Blank(s) \/ FullyCommented(s)

\* The physical line at i ends in a backslash right before a line break.
Continued(t, i) ==
    /\ LineEnd(t, i) < Len(t)
    /\ LineEnd(t, i) > i
    /\ t[LineEnd(t, i)] = "\\"

\* Every physical line of t is blank or fully commented.
AllTrivial(t) ==
    \A i \in 0..Len(t) : (i = 0 \/ IsBreak(t[i])) => Trivial(PhysicalLine(t, i))

\* Number of physical lines of t (a \r\n pair is one break).
PhysicalLines(t) ==
    1 + Cardinality({k \in 1..Len(t) :
                        IsBreak(t[k]) /\ ~(t[k] = "\n" /\ k > 1 /\ t[k - 1] = "\r")})

\* The content the chain starting at offset i joins to: each continued line
\* without its backslash, then the terminating line.
RECURSIVE ChainText(_, _)
ChainText(t, i) ==
    IF Continued(t, i)
    THEN Slice(t, i, LineEnd(t, i) - 1) \o ChainText(t, AfterLine(t, i))
    ELSE PhysicalLine(t, i)

\* Offset just past the chain starting at offset i.
RECURSIVE ChainEnd(_, _)
ChainEnd(t, i) ==
    IF Continued(t, i) THEN ChainEnd(t, AfterLine(t, i)) ELSE AfterLine(t, i)

HasChar(s, c) == \E k \in 1..Len(s) : s[k] = c

\* Offset at which the last physical line of t starts.
LastLineStart(t) ==
    LET B == {k \in 1..Len(t) : IsBreak(t[k])}
    IN  IF B = {} THEN 0 ELSE CHOOSE k \in B : \A j \in B : k >= j

(***************************************************************************)
(* Properties of the line splitter and of from_str, checked under Spec.    *)
(***************************************************************************)
\* The physical line that starts at offset s is the terminating line of a chain.
ChainTail(t, s) == \E i \in 0..(s - 1) : AfterLine(t, i) = s /\ Continued(t, i)

\* C2: a continuation chain at the start of the manifest (no '#' in it) is
\* emitted by next as exactly one logical line, whose content is every
\* continued line without its backslash followed by the terminating line;
\* no later logical line starts inside the chain.
C2_ChainJoined ==
    (/\ pc = "iter"
     /\ calls >= 1
     /\ Continued(text, 0)
     /\ ~Trivial(PhysicalLine(text, 0))
     /\ ~HasChar(text, "#"))
    => /\ Len(lines) >= 1
       /\ lines[1].line = ChainText(text, 0)
       /\ \A k \in 2..Len(lines) : lines[k].at >= ChainEnd(text, 0)

\* C3: when the sequence has ended and the last physical line has no line
\* break, is neither blank nor fully commented (and is no chain's tail), it
\* was emitted, in full, as the last logical line.
C3_RemainderEmitted ==
    LET s == LastLineStart(text)
    IN  (/\ pc = "iter"
         /\ ret = "None"
         /\ ~Trivial(Slice(text, s, Len(text)))
         /\ ~ChainTail(text, s)
         /\ ~HasChar(text, "#"))
        => /\ lines /= <<>>
           /\ lines[Len(lines)].line = Slice(text, s, Len(text))
           /\ lines[Len(lines)].at = s

\* C4: from_str ends with the error of the earliest rejected line, no entries
\* and no further parser call, or else with one entry per logical line in order.
C4_FailFast ==
    /\ pc /= "Panic"
    /\ pc = "Err" => /\ entries = <<>>
                     /\ parsed = [k \in 1..Len(lines) |-> as_str(lines[k])]
                     /\ parsed /= <<>>
                     /\ error = <<parsed[Len(parsed)]>>
    /\ pc = "Ok" => /\ error = <<>>
                    /\ ret = "None"
                    /\ entries = [k \in 1..Len(lines) |-> as_str(lines[k])]
                    /\ parsed = entries

\* C5: a manifest of blank and fully commented physical lines only (the empty
\* text included) yields no logical line, no parser call, and the empty collection.
C5_TrivialManifestEmpty ==
    AllTrivial(text)
    => /\ lines = <<>>
       /\ parsed = <<>>
       /\ entries = <<>>
       /\ ret \in {"-", "None"}
       /\ pc \in {"new", "iter", "Ok"}

\* C8: no call of next, strip_trivia or as_str fails, and every Clean Span
\* length lies within its logical line.
C8_Total ==
    /\ ret /= "Panic"
    /\ pc /= "Panic"
    /\ \A k \in 1..Len(lines) : 0 <= lines[k].len /\ lines[k].len <= Len(lines[k].line)

\* C10: next never fails; it has returned None by call number "physical
\* lines + 1"; after None the cursor rests at text length - 1.
C10_Finite ==
    /\ ret /= "Panic"
    /\ ret = "Some" => calls <= PhysicalLines(text)
    /\ ret = "None" => index = wrapping_sub(Len(text), 1)

\* C10 (second half): once next has returned None, every later call returns
\* None and emits nothing.
C10_OnceNone == [][ret = "None" => (ret' = "None" /\ lines' = lines)]_vars

\* The first physical line is fully commented and ends in a backslash right
\* before its line break.
CommentedContinued(t) == FullyCommented(PhysicalLine(t, 0)) /\ Continued(t, 0)

FirstHash(s) ==
    (CHOOSE k \in 1..Len(s) : s[k] = "#" /\ \A j \in 1..(k - 1) : s[j] /= "#") - 1

\* C1: for a line containing '#', comment stripping returns, and leaves the
\* span cut at the leftmost '#' when a whitespace character precedes it, and
\* at the full line length otherwise.
C1_CommentCut ==
    (pc = "stripped" /\ HasChar(requirement, "#"))
    => /\ stripped.kind = "Ok"
       /\ stripped.comment =
             IF FirstHash(requirement) > 0
                /\ is_whitespace(requirement[FirstHash(requirement)])
             THEN FirstHash(requirement)
             ELSE Len(requirement)

\* Offsets at which "--hash" occurs wholly inside s[0..len].
HashOffsets(s, len) ==
    {k \in 0..(len - Len(HashExtra)) : Slice(s, k, k + Len(HashExtra)) = HashExtra}

\* C7: once comment stripping has fixed the prefix line[0..comment], the
\* returned length is the offset of the leftmost "--hash" inside that prefix,
\* and the prefix length when it holds none; as_str returns that much of the line.
C7_HashCut ==
    /\ (pc \in {"stripped", "read"} /\ stripped.kind = "Ok")
       => LET H == HashOffsets(requirement, stripped.comment)
          IN  IF H = {} THEN stripped.len = stripped.comment
              ELSE /\ stripped.len \in H
                   /\ \A k \in H : stripped.len <= k
    /\ pc = "read" => parsed = <<SubSeq(requirement, 1, stripped.len)>>

\* C7 witness: a line with text, then "--hash" twice, was cut at the first.
C7_Witness ==
    /\ pc = "read"
    /\ Cardinality(HashOffsets(requirement, Len(requirement))) = 2
    /\ stripped.len > 0
    /\ stripped.len < stripped.comment
    /\ parsed = <<SubSeq(requirement, 1, stripped.len)>>

(***************************************************************************)
(* Properties of line endings, checked under SpecEol.                      *)
(***************************************************************************)
\* The logical lines with their Clean Spans, without their offsets.
Content(ls) == [k \in 1..Len(ls) |-> [line |-> ls[k].line, len |-> ls[k].len]]

\* A bare \r break directly followed by an empty physical line and a \n break.
CrThenLf(p) == \E k \in 1..(Len(p) - 1) : p[k] = "\r" /\ p[k + 1] = "\n"

\* The break find_newline reports from the cursor is the first break
\* character; its width is 2 for \r\n and 1 otherwise.
BreakAtCursor ==
    index <= Len(text)
    => find_newline(Slice(text, index, Len(text))) =
          IF LineEnd(text, index) = Len(text) THEN NoNewline
          ELSE <<LineEnd(text, index) - index, BreakWidth(text, LineEnd(text, index))>>

\* C6 as stated: whatever mix of breaks separates the physical lines, the
\* iterator yields the same logical lines and Clean Spans as over the
\* \n-only manifest.
C6_SameAsLf ==
    /\ Content(lines) = Content(lfLines)
    /\ ret = lfRet
    /\ BreakAtCursor

\* C6 as amended: the same, provided no bare \r break is directly followed
\* by an empty physical line and a \n break.
C6_SameAsLfUnlessCrLf ==
    ~CrThenLf(physical) => C6_SameAsLf

\* C6 witness: a manifest using both \r\n and a bare \r has ended after
\* yielding two logical lines, as the \n-only manifest did.
C6_Witness ==
    /\ pc = "eol"
    /\ ~CrThenLf(physical)
    /\ HasChar(physical, "\r\n")
    /\ HasChar(physical, "\r")
    /\ ret = "None"
    /\ Len(lines) = 2
    /\ Content(lines) = Content(lfLines)

====
